---- MODULE Spec2Model ----
(***************************************************************************)
(* Pricing and backtesting engine of the options platform                  *)
(* (src/frontend/src/App.js): runCoveredCallBacktest, the report it        *)
(* returns, calculateBlackScholes and generateMockPriceData, and the       *)
(* handlers of the App component: navigation, calculateOption,             *)
(* runBacktest and the portfolio.                                          *)
(*                                                                         *)
(* Prices, rates and Greeks of calculateBlackScholes and the prices of     *)
(* generateMockPriceData are fixed-point numbers with unit Scale; NaN,     *)
(* Infinity and -Infinity are the numbers FxNaN, FxPosInf and FxNegInf,    *)
(* which the arithmetic operators propagate as JavaScript does.            *)
(*                                                                         *)
(* Money amounts of the backtest are integers (whole currency units), so   *)
(* the sums and products of the loop are exact.  The quotients of the      *)
(* report (winRate, avgPnL, finalReturn) and Math.min are JavaScript       *)
(* numbers: a reduced fraction [num, den] with den > 0, or a non-finite    *)
(* value with den = 0 (num = 0 is NaN, num = 1 is Infinity, num = -1 is    *)
(* -Infinity).                                                             *)
(***************************************************************************)
EXTENDS Integers, Sequences, FiniteSets, TLC

VARIABLES
    prices,         \* argument of runCoveredCallBacktest: the price path
    strike,         \* argument: strike of the short call
    premium,        \* argument: premium collected per share
    quantity,       \* argument: number of contracts
    initialCapital, \* strategyInputs.initialCapital, read at the return
    i,              \* loop index of the for statement
    results,        \* trade records pushed so far
    totalPnL,       \* running total
    winningTrades,
    totalTrades,
    btPc,           \* "loop" while the for statement runs, "returned" after
    report,         \* <<>> until the function returns, then <<the report>>
    bsArgs,         \* arguments of calculateBlackScholes: [S, K, T, r, sigma]
    bsPc,           \* "idle", "called" or "returned"
    bsResult,       \* <<>> until the function returns, then <<the result>>
    genArgs,        \* arguments of generateMockPriceData
    genI,           \* loop index of its for statement
    genPrices,      \* its array prices
    genReturns,     \* its array returns
    genPc,          \* "idle", "loop" or "returned"
    genResult,      \* <<>> until the function returns, then <<the result>>
    genFirst,       \* <<>>, or <<the result of the call before this one>>
    activeSection,  \* state of the App component: the section shown
    optionInputs,   \* form of the pricing calculator
    optionResults,  \* <<>> for null, or <<the stored pricing result>>
    isCalculating,
    runOptionInputs,   \* <<>>, or <<optionInputs of the render whose
                       \* calculateOption is waiting for its timer>>
    calcFailed,     \* the catch clause of the last calculateOption ran
    strategyInputs, \* form of the backtesting section
    backtestResults,   \* <<>> for null, or <<the stored results>>
    isBacktesting,
    runStrategyInputs, \* <<>>, or <<strategyInputs of the render whose
                       \* runBacktest is waiting for its timer>>
    backtestFailed, \* the catch clause of the last runBacktest ran
    resultsOf,      \* <<>>, or <<strategyInputs that the run which stored
                    \* backtestResults read>>
    portfolioPositions,
    portfolioMetrics,  \* <<>> for null, or <<the stored metrics>>
    newPosition,    \* form of the new position
    effectPending,  \* portfolioPositions changed, its effect has not run
    clock           \* the last value of Date.now(), 0 before the first

btVars == <<prices, strike, premium, quantity, initialCapital, i, results,
            totalPnL, winningTrades, totalTrades, btPc, report>>

bsVars == <<bsArgs, bsPc, bsResult>>

genVars == <<genArgs, genI, genPrices, genReturns, genPc, genResult, genFirst>>

appVars == <<activeSection, optionInputs, optionResults, isCalculating,
             runOptionInputs, calcFailed, strategyInputs, backtestResults,
             isBacktesting, runStrategyInputs, backtestFailed, resultsOf>>

pfVars == <<portfolioPositions, portfolioMetrics, newPosition, effectPending,
            clock>>

vars == <<btVars, bsVars, genVars, appVars, pfVars>>

----------------------------------------------------------------------------
(* Bounds of the model and constants of the program *)

MaxPeriods == 2

Period == 30

ExitOffset == 29

Multiplier == 100

DefaultInitialCapital == 8300000

\* Values of the initial-capital field of the form
CapitalVals == {DefaultInitialCapital, DefaultInitialCapital \div 2}

PriceVals == {8, 10, 12}

StrikeVals == {10}

PremiumVals == {0, 2}

QuantityVals == {1, 2}

\* Path lengths around every multiple of the period, up to MaxPeriods
PathLens == { Period * k + d : k \in 0..MaxPeriods, d \in {0, 1, ExitOffset} }

----------------------------------------------------------------------------
(* JavaScript numbers that come out of a division or of Math.min *)

Max(a, b) == IF a >= b THEN a ELSE b

Abs(x) == IF x < 0 THEN 0 - x ELSE x

RECURSIVE GCD(_, _)
GCD(a, b) == IF b = 0 THEN a ELSE GCD(b, a % b)

NaN == [num |-> 0, den |-> 0]

PosInfinity == [num |-> 1, den |-> 0]

NegInfinity == [num |-> 0 - 1, den |-> 0]

\* The finite number n/d (d # 0) as a reduced fraction with den > 0
Frac(n, d) ==
    LET g == GCD(Abs(n), Abs(d))
        s == IF d < 0 THEN 0 - 1 ELSE 1
    IN  [num |-> (s * n) \div g, den |-> (s * d) \div g]

FromInt(n) == [num |-> n, den |-> 1]

IsFinite(x) == x.den # 0

IsNaN(x) == x.den = 0 /\ x.num = 0

\* a / b for integers a and b (b = 0 is +0: a counter or a parsed field)
JsDiv(a, b) ==
    IF b # 0 THEN Frac(a, b)
    ELSE IF a = 0 THEN NaN
    ELSE IF a > 0 THEN PosInfinity
    ELSE NegInfinity

\* x * c for a JavaScript number x and an integer c > 0
JsTimes(x, c) == IF IsFinite(x) THEN Frac(x.num * c, x.den) ELSE x

\* x <= y for finite x and y
FracLeq(x, y) == x.num * y.den <= y.num * x.den

\* Math.min(...xs) over a sequence of integers: Infinity when xs is empty
RECURSIVE MinOfSeq(_)
MinOfSeq(xs) ==
    IF Len(xs) = 0 THEN PosInfinity
    ELSE LET rest == MinOfSeq(Tail(xs))
         IN  IF IsFinite(rest) /\ rest.num < Head(xs) THEN rest
             ELSE FromInt(Head(xs))

----------------------------------------------------------------------------
(* Real arithmetic of calculateBlackScholes, in fixed point: the real v is *)
(* the integer v * Scale, every operation rounding to the nearest multiple *)
(* of 1 / Scale.  Operands are split so that no intermediate product       *)
(* leaves the 32-bit range.                                                *)

Scale == 10^6

Half == Scale \div 2

Sgn(x) == IF x < 0 THEN 0 - 1 ELSE 1

\* The values that are not numbers of the fixed-point range: NaN, Infinity
\* and -Infinity, kept outside the range of the finite values
FxPosInf == 2147483647

FxNegInf == -2147483647

FxNaN == -2147483646

FxIsNaN(x) == x = FxNaN

FxIsInf(x) == x = FxPosInf \/ x = FxNegInf

\* Number.isFinite
FxIsFinite(x) == ~FxIsNaN(x) /\ ~FxIsInf(x)

\* a < b and a <= b: false when either side is NaN
FxLt(a, b) == ~FxIsNaN(a) /\ ~FxIsNaN(b) /\ a < b

FxLeq(a, b) == ~FxIsNaN(a) /\ ~FxIsNaN(b) /\ a <= b

\* -a
FxNeg(a) ==
    IF FxIsNaN(a) THEN FxNaN
    ELSE IF a = FxPosInf THEN FxNegInf
    ELSE IF a = FxNegInf THEN FxPosInf
    ELSE 0 - a

\* Math.abs
FxAbs(a) == IF FxIsNaN(a) THEN FxNaN ELSE IF FxIsInf(a) THEN FxPosInf ELSE Abs(a)

\* a + b
FxAdd(a, b) ==
    IF FxIsNaN(a) \/ FxIsNaN(b) THEN FxNaN
    ELSE IF FxIsInf(a) THEN (IF FxIsInf(b) /\ a # b THEN FxNaN ELSE a)
    ELSE IF FxIsInf(b) THEN b
    ELSE a + b

\* a - b
FxSub(a, b) == FxAdd(a, FxNeg(b))

\* a * b
FxMul(a, b) ==
    IF FxIsNaN(a) \/ FxIsNaN(b) THEN FxNaN
    ELSE IF FxIsInf(a) \/ FxIsInf(b)
    THEN (IF a = 0 \/ b = 0 THEN FxNaN
          ELSE IF Sgn(a) = Sgn(b) THEN FxPosInf ELSE FxNegInf)
    ELSE
    LET aa == Abs(a)
        bb == Abs(b)
        ah == aa \div Scale
        al == aa % Scale
        bh == bb \div Scale
        bl == bb % Scale
        a1h == al \div 1000
        a0l == al % 1000
        b1h == bl \div 1000
        b0l == bl % 1000
        low == a1h * b1h
               + ((a1h * b0l + a0l * b1h) * 1000 + a0l * b0l + Half) \div Scale
    IN  Sgn(a) * Sgn(b) * (ah * bh * Scale + ah * bl + al * bh + low)

\* The quotient acc followed by n more decimal digits of rem / d, rounded
RECURSIVE FxDigits(_, _, _, _)
FxDigits(rem, d, n, acc) ==
    IF n = 0 THEN acc + (IF 2 * rem >= d THEN 1 ELSE 0)
    ELSE FxDigits((rem * 10) % d, d, n - 1, acc * 10 + (rem * 10) \div d)

\* a / b; a zero divisor is +0 (every divisor of the program is a product
\* of non-negative factors): x / 0 is NaN for x = 0 and an infinity otherwise
FxDiv(a, b) ==
    IF FxIsNaN(a) \/ FxIsNaN(b) THEN FxNaN
    ELSE IF b = 0
    THEN (IF a = 0 THEN FxNaN ELSE IF a > 0 THEN FxPosInf ELSE FxNegInf)
    ELSE IF FxIsInf(a)
    THEN (IF FxIsInf(b) THEN FxNaN
          ELSE IF Sgn(a) = Sgn(b) THEN FxPosInf ELSE FxNegInf)
    ELSE IF FxIsInf(b) THEN 0
    ELSE Sgn(a) * Sgn(b)
         * FxDigits(Abs(a) % Abs(b), Abs(b), 6, Abs(a) \div Abs(b))

\* a / n for a positive integer literal n
FxDivInt(a, n) ==
    IF ~FxIsFinite(a) THEN a ELSE Sgn(a) * ((Abs(a) + n \div 2) \div n)

\* Math.sqrt: Newton's iteration from above
RECURSIVE FxSqrtIter(_, _)
FxSqrtIter(x, y) ==
    LET y2 == (y + FxDiv(x, y)) \div 2
    IN  IF y2 >= y THEN y ELSE FxSqrtIter(x, y2)

FxSqrt(x) ==
    IF FxIsNaN(x) \/ x < 0 THEN FxNaN
    ELSE IF x = FxPosInf THEN FxPosInf
    ELSE IF x = 0 THEN 0
    ELSE FxSqrtIter(x, Max(x, Scale))

Ln2 == 693147

\* z + z^3/3 + z^5/5 + ... + z^13/13, from the term of exponent n - 2
RECURSIVE FxLnSeries(_, _, _, _)
FxLnSeries(z2, term, n, acc) ==
    IF n > 13 THEN acc
    ELSE LET t == FxMul(term, z2)
         IN  FxLnSeries(z2, t, n + 2, acc + FxDivInt(t, n))

\* ln(x * 2^k), x brought into [3/4, 3/2] and ln x = 2 atanh((x-1)/(x+1))
RECURSIVE FxLnRed(_, _)
FxLnRed(x, k) ==
    IF 2 * x > 3 * Scale THEN FxLnRed(x \div 2, k + 1)
    ELSE IF 4 * x < 3 * Scale THEN FxLnRed(x * 2, k - 1)
    ELSE LET z == FxDiv(x - Scale, x + Scale)
         IN  2 * FxLnSeries(FxMul(z, z), z, 3, z) + k * Ln2

\* Math.log: NaN below 0, -Infinity at 0
FxLn(x) ==
    IF FxIsNaN(x) \/ x < 0 THEN FxNaN
    ELSE IF x = 0 THEN FxNegInf
    ELSE IF x = FxPosInf THEN FxPosInf
    ELSE FxLnRed(x, 0)

Euler == 2718282

EulerInv == 367879

\* 1 + f + f^2/2! + ... + f^12/12!, from the term of index n - 1
RECURSIVE FxExpSeries(_, _, _, _)
FxExpSeries(f, term, n, acc) ==
    IF n > 12 THEN acc
    ELSE LET t == FxDivInt(FxMul(term, f), n)
         IN  FxExpSeries(f, t, n + 1, acc + t)

\* v * e^n
RECURSIVE FxExpScale(_, _)
FxExpScale(v, n) ==
    IF n = 0 THEN v
    ELSE IF n > 0 THEN FxExpScale(FxMul(v, Euler), n - 1)
    ELSE FxExpScale(FxMul(v, EulerInv), n + 1)

\* Math.exp: e^x = e^n * e^f with n the integer part of x; below e^-15 the
\* value rounds to 0
FxExp(x) ==
    IF FxIsNaN(x) THEN FxNaN
    ELSE IF x = FxPosInf THEN FxPosInf
    ELSE IF x < (0 - 15) * Scale THEN 0
    ELSE LET n == x \div Scale
             f == x - n * Scale
         IN  FxExpScale(FxExpSeries(f, Scale, 1, Scale), n)

\* Math.exp(-c * x * x) for c = 1 (half = FALSE) or c = 0.5 (half = TRUE);
\* for |x| >= 6 the value rounds to 0
FxExpNegSquare(x, half) ==
    IF FxIsNaN(x) THEN FxNaN
    ELSE IF Abs(x) >= 6 * Scale THEN 0
    ELSE IF half THEN FxExp(0 - FxMul(FxMul(Half, x), x))
    ELSE FxExp(0 - FxMul(x, x))

Pi == 3141593

----------------------------------------------------------------------------
(* State of the App component after construction *)

\* The four options of the strategy select
Strategies == {"covered_call", "protective_put", "iron_condor", "straddle"}

\* The form of the pricing calculator: prices and rates in fixed point, the
\* stock and strike prices in units of 83 rupees (8300 is 100, 8715 is 105)
DefaultOptionInputs ==
    [stockPrice |-> 100 * Scale, strikePrice |-> 105 * Scale,
     timeToExpiry |-> 30, volatility |-> 200000, riskFreeRate |-> 50000]

\* The fields of strategyInputs that runBacktest and the results heading use
DefaultStrategyInputs ==
    [strategy |-> "covered_call", initialCapital |-> DefaultInitialCapital]

AppInitState ==
    /\ activeSection = "overview"
    /\ optionInputs = DefaultOptionInputs
    /\ optionResults = <<>>
    /\ isCalculating = FALSE
    /\ runOptionInputs = <<>>
    /\ calcFailed = FALSE
    /\ strategyInputs = DefaultStrategyInputs
    /\ backtestResults = <<>>
    /\ isBacktesting = FALSE
    /\ runStrategyInputs = <<>>
    /\ backtestFailed = FALSE
    /\ resultsOf = <<>>

\* The three positions of the initial portfolio: strike in rupees, premium
\* and current in hundredths of a rupee
InitialPositions ==
    << [id |-> 1, symbol |-> "RELIANCE", type |-> "Call", strike |-> 12450,
        expiry |-> "2024-03-15", quantity |-> 10, premium |-> 45650,
        current |-> 51460],
       [id |-> 2, symbol |-> "INFY", type |-> "Put", strike |-> 24900,
        expiry |-> "2024-02-16", quantity |-> 5, premium |-> 72625,
        current |-> 60590],
       [id |-> 3, symbol |-> "TCS", type |-> "Call", strike |-> 11620,
        expiry |-> "2024-04-19", quantity |-> 8, premium |-> 101675,
        current |-> 131140] >>

\* The empty form of a new position
EmptyPosition ==
    [symbol |-> "", type |-> "Call", strike |-> "", expiry |-> "",
     quantity |-> "", premium |-> ""]

\* Values of Date.now(), in milliseconds
ClockVals == {1700000000, 1700000001}

PortfolioInitState ==
    /\ portfolioPositions = InitialPositions
    /\ portfolioMetrics = <<>>
    /\ newPosition = EmptyPosition
    /\ effectPending = TRUE
    /\ clock = 0

----------------------------------------------------------------------------
(* runCoveredCallBacktest *)

\* JavaScript's a || b on numbers: a unless a is falsy (0)
OrElse(a, b) == IF a # 0 THEN a ELSE b

\* prices[j] of the source (0-based)
At(path, j) == path[j + 1]

EntryPrice(path, idx) == At(path, idx)

\* ExitPrice reading the last element of the path in every period
ExitPriceLastDay(path, idx) == At(path, Len(path) - 1)

ExitPrice(path, idx) ==
    OrElse(At(path, idx + ExitOffset), At(path, Len(path) - 1))

StockPnL(entryPrice, exitPrice, q) == (exitPrice - entryPrice) * q * Multiplier

\* OptionPnL with the sign of the assignment loss lost
OptionPnLSignSlip(exitPrice, k, prem, q) ==
    IF exitPrice > k
    THEN (exitPrice - k) * q * Multiplier + prem * q * Multiplier
    ELSE prem * q * Multiplier

\* OptionPnL without the loss of the assignment above the strike
OptionPnLUncapped(exitPrice, k, prem, q) == prem * q * Multiplier

OptionPnL(exitPrice, k, prem, q) ==
    IF exitPrice > k
    THEN (0 - (exitPrice - k)) * q * Multiplier + prem * q * Multiplier
    ELSE prem * q * Multiplier

\* IsWin counting a break-even period as a win
IsWinOrEven(tradePnL) == tradePnL >= 0

IsWin(tradePnL) == tradePnL > 0

\* TradeRecord storing the period's own P&L as the cumulative one
TradeRecordOwnPnL(idx, exitPrice, tradePnL, runningTotal) ==
    [date |-> idx + 1, stockPrice |-> exitPrice, pnl |-> tradePnL,
     cumulativePnL |-> tradePnL]

\* The pushed record; date is the day of January 2023 handed to the Date
\* constructor, idx + 1 (the first day of the period)
TradeRecord(idx, exitPrice, tradePnL, runningTotal) ==
    [date |-> idx + 1, stockPrice |-> exitPrice, pnl |-> tradePnL,
     cumulativePnL |-> runningTotal]

LoopGuard(path, idx) == idx < Len(path) - Period

CumulativeOf(rs) == [k \in 1..Len(rs) |-> rs[k].cumulativePnL]

\* WinRate left as a fraction of 1
WinRateFraction(w, t) == JsDiv(w, t)

WinRate(w, t) == JsTimes(JsDiv(w, t), 100)

AvgPnL(total, t) == JsDiv(total, t)

MaxDrawdown(rs) == MinOfSeq(CumulativeOf(rs))

FinalReturn(total, capital) == JsTimes(JsDiv(total, capital), 100)

BacktestReport(rs, total, w, t, capital) ==
    [trades |-> rs,
     totalPnL |-> total,
     winningTrades |-> w,
     totalTrades |-> t,
     winRate |-> WinRate(w, t),
     avgPnL |-> AvgPnL(total, t),
     maxDrawdown |-> MaxDrawdown(rs),
     finalReturn |-> FinalReturn(total, capital)]

\* The path with entry price e[k] from the first day of block k up to its
\* last day, whose price is x[k]
PathOf(n, e, x) ==
    [j \in 1..n |->
        LET k == (j - 1) \div Period
            off == (j - 1) % Period
        IN  IF off = ExitOffset THEN x[k] ELSE e[k]]

\* generateMockPriceData has not been called
GenerateIdle ==
    /\ genArgs = [days |-> 0, startPrice |-> 0, volatility |-> 0]
    /\ genI = 0
    /\ genPrices = <<>>
    /\ genReturns = <<>>
    /\ genPc = "idle"
    /\ genResult = <<>>
    /\ genFirst = <<>>

\* calculateBlackScholes has not been called
PricingIdle ==
    /\ bsArgs = [S |-> 0, K |-> 0, T |-> 0, r |-> 0, sigma |-> 0]
    /\ bsPc = "idle"
    /\ bsResult = <<>>

BacktestInit ==
    /\ \E n \in PathLens :
         \E e \in [0..((n + Period - 1) \div Period) - 1 -> PriceVals] :
           \E x \in [0..(n \div Period) - 1 -> PriceVals] :
             prices = PathOf(n, e, x)
    /\ strike \in StrikeVals
    /\ premium \in PremiumVals
    /\ quantity \in QuantityVals
    /\ initialCapital \in CapitalVals
    /\ i = 0
    /\ results = <<>>
    /\ totalPnL = 0
    /\ winningTrades = 0
    /\ totalTrades = 0
    /\ btPc = "loop"
    /\ report = <<>>
    /\ PricingIdle
    /\ GenerateIdle
    /\ AppInitState
    /\ PortfolioInitState

\* One iteration of the for statement
BacktestIter ==
    /\ btPc = "loop"
    /\ LoopGuard(prices, i)
    /\ LET entryPrice == EntryPrice(prices, i)
           exitPrice == ExitPrice(prices, i)
           totalTradePnL == StockPnL(entryPrice, exitPrice, quantity)
                            + OptionPnL(exitPrice, strike, premium, quantity)
       IN  /\ totalPnL' = totalPnL + totalTradePnL
           /\ winningTrades' = IF IsWin(totalTradePnL) THEN winningTrades + 1
                               ELSE winningTrades
           /\ totalTrades' = totalTrades + 1
           /\ results' = Append(results,
                 TradeRecord(i, exitPrice, totalTradePnL, totalPnL'))
    /\ i' = i + Period
    /\ UNCHANGED <<prices, strike, premium, quantity, initialCapital, btPc, report>>
    /\ UNCHANGED <<bsVars, genVars, appVars, pfVars>>

\* The loop is over: the return statement builds the report
BacktestReturn ==
    /\ btPc = "loop"
    /\ ~LoopGuard(prices, i)
    /\ report' = <<BacktestReport(results, totalPnL, winningTrades,
                                  totalTrades, initialCapital)>>
    /\ btPc' = "returned"
    /\ UNCHANGED <<prices, strike, premium, quantity, initialCapital, i,
                   results, totalPnL, winningTrades, totalTrades>>
    /\ UNCHANGED <<bsVars, genVars, appVars, pfVars>>

BacktestNext == BacktestIter \/ BacktestReturn

SpecBacktest == BacktestInit /\ [][BacktestNext]_vars

----------------------------------------------------------------------------
(* normalCDF and calculateBlackScholes *)

a1 == 254830

a2 == -284497

a3 == 1421414

a4 == -1453152

a5 == 1061405

pCoef == 327591

DaysPerYear == 365

\* normalCDF(x): Abramowitz-Stegun approximation of the normal distribution
normalCDF(x0) ==
    LET negative == FxLt(x0, 0)
        x == FxDiv(FxAbs(x0), FxSqrt(2 * Scale))
        t == FxDiv(Scale, FxAdd(Scale, FxMul(pCoef, x)))
        poly ==
            FxMul(FxAdd(FxMul(FxAdd(FxMul(FxAdd(FxMul(FxAdd(FxMul(a5, t), a4),
                  t), a3), t), a2), t), a1), t)
        y == FxSub(Scale, FxMul(poly, FxExpNegSquare(x, FALSE)))
    IN  FxMul(Half, FxAdd(Scale, IF negative THEN FxNeg(y) ELSE y))

\* The floor Math.max(x, 0) left out
NoFloor(x) == x

\* Math.max(x, 0): NaN when x is NaN
FloorAtZero(x) == IF FxIsNaN(x) THEN FxNaN ELSE Max(x, 0)

\* T / 365
TimeToExpiry(T) == FxDivInt(T * Scale, DaysPerYear)

\* The expiry branch taking S = K for in the money
ExpiryResultAtTheMoneyIn(S, K) ==
    [callPrice |-> FloorAtZero(S - K),
     putPrice |-> FloorAtZero(K - S),
     greeks |-> [delta |-> IF S >= K THEN Scale ELSE 0,
                 gamma |-> 0, theta |-> 0, vega |-> 0, rho |-> 0]]

\* The result of the branch timeToExpiry <= 0 (delta 1 is Scale)
ExpiryResult(S, K) ==
    [callPrice |-> FloorAtZero(S - K),
     putPrice |-> FloorAtZero(K - S),
     greeks |-> [delta |-> IF S > K THEN Scale ELSE 0,
                 gamma |-> 0, theta |-> 0, vega |-> 0, rho |-> 0]]

\* d1 with the logarithm of K / S in place of S / K
D1LogInverted(S, K, tt, r, sigma) ==
    FxDiv(FxAdd(FxLn(FxDiv(K, S)),
                FxMul(FxAdd(r, FxMul(FxMul(Half, sigma), sigma)), tt)),
          FxMul(sigma, FxSqrt(tt)))

D1(S, K, tt, r, sigma) ==
    FxDiv(FxAdd(FxLn(FxDiv(S, K)),
                FxMul(FxAdd(r, FxMul(FxMul(Half, sigma), sigma)), tt)),
          FxMul(sigma, FxSqrt(tt)))

D2(d1, tt, sigma) == FxSub(d1, FxMul(sigma, FxSqrt(tt)))

\* Math.exp(-r * timeToExpiry)
Discount(r, tt) == FxExp(FxMul(FxNeg(r), tt))

\* nPrime_d1 = exp(-0.5 * d1 * d1) / sqrt(2 * PI)
NPrime(d1) == FxDiv(FxExpNegSquare(d1, TRUE), FxSqrt(FxMul(2 * Scale, Pi)))

\* callPrice before the floor
RawCallPrice(S, K, tt, r, sigma) ==
    LET d1 == D1(S, K, tt, r, sigma)
        d2 == D2(d1, tt, sigma)
    IN  FxSub(FxMul(S, normalCDF(d1)),
              FxMul(FxMul(K, Discount(r, tt)), normalCDF(d2)))

\* putPrice with N(d1) written where N(d2) belongs
RawPutPriceOneCdf(S, K, tt, r, sigma) ==
    LET d1 == D1(S, K, tt, r, sigma)
    IN  FxSub(FxMul(FxMul(K, Discount(r, tt)), FxSub(Scale, normalCDF(d1))),
              FxMul(S, FxSub(Scale, normalCDF(d1))))

\* putPrice before the floor
RawPutPrice(S, K, tt, r, sigma) ==
    LET d1 == D1(S, K, tt, r, sigma)
        d2 == D2(d1, tt, sigma)
    IN  FxSub(FxMul(FxMul(K, Discount(r, tt)), FxSub(Scale, normalCDF(d2))),
              FxMul(S, FxSub(Scale, normalCDF(d1))))

\* delta_put with the operands of the subtraction exchanged
DeltaPutSwapped(Nd1) == FxSub(Scale, Nd1)

\* delta_put = Nd1 - 1
DeltaPut(Nd1) == FxSub(Nd1, Scale)

Greeks(S, K, tt, r, sigma) ==
    LET d1 == D1(S, K, tt, r, sigma)
        d2 == D2(d1, tt, sigma)
        Nd1 == normalCDF(d1)
        Nd2 == normalCDF(d2)
        nPrime_d1 == NPrime(d1)
        sq == FxSqrt(tt)
        disc == Discount(r, tt)
        decay == FxDiv(FxMul(FxMul(FxNeg(S), nPrime_d1), sigma),
                       FxMul(2 * Scale, sq))
    IN  [delta_call |-> Nd1,
         delta_put |-> DeltaPut(Nd1),
         gamma |-> FxDiv(nPrime_d1, FxMul(FxMul(S, sigma), sq)),
         theta_call |->
            FxDivInt(FxSub(decay, FxMul(FxMul(FxMul(r, K), disc), Nd2)),
                     DaysPerYear),
         theta_put |->
            FxDivInt(FxAdd(decay, FxMul(FxMul(FxMul(r, K), disc),
                                        FxSub(Scale, Nd2))),
                     DaysPerYear),
         vega |-> FxDivInt(FxMul(FxMul(S, nPrime_d1), sq), 100),
         rho_call |-> FxDivInt(FxMul(FxMul(FxMul(K, tt), disc), Nd2), 100),
         rho_put |->
            FxDivInt(FxMul(FxMul(FxMul(FxNeg(K), tt), disc), FxSub(Scale, Nd2)),
                     100)]

\* The result of the general branch
GeneralResult(S, K, tt, r, sigma) ==
    [callPrice |-> FloorAtZero(RawCallPrice(S, K, tt, r, sigma)),
     putPrice |-> FloorAtZero(RawPutPrice(S, K, tt, r, sigma)),
     greeks |-> Greeks(S, K, tt, r, sigma)]

calculateBlackScholes(S, K, T, r, sigma) ==
    IF TimeToExpiry(T) <= 0 THEN ExpiryResult(S, K)
    ELSE GeneralResult(S, K, TimeToExpiry(T), r, sigma)

\* Arguments of the calls: prices and rates in fixed point, days as integers
SpotVals == {50 * Scale, 80 * Scale, 95 * Scale, 100 * Scale, 105 * Scale,
             130 * Scale, 141 * Scale, 142 * Scale, 150 * Scale}

StrikePriceVals == {100 * Scale}

DaysVals == {0, 1, 30, 365}

RateVals == {0, 50000}

VolatilityVals == {200000, 300000, 500000}

\* runCoveredCallBacktest has not been called
BacktestIdle ==
    /\ prices = <<>>
    /\ strike = 0
    /\ premium = 0
    /\ quantity = 0
    /\ initialCapital = DefaultInitialCapital
    /\ i = 0
    /\ results = <<>>
    /\ totalPnL = 0
    /\ winningTrades = 0
    /\ totalTrades = 0
    /\ btPc = "idle"
    /\ report = <<>>

PricingInit ==
    /\ bsArgs \in [S : SpotVals, K : StrikePriceVals, T : DaysVals,
                   r : RateVals, sigma : VolatilityVals]
    /\ bsPc = "called"
    /\ bsResult = <<>>
    /\ BacktestIdle
    /\ GenerateIdle
    /\ AppInitState
    /\ PortfolioInitState

\* The call of calculateBlackScholes runs and returns
CalculateBlackScholes ==
    /\ bsPc = "called"
    /\ bsResult' = <<calculateBlackScholes(bsArgs.S, bsArgs.K, bsArgs.T,
                                           bsArgs.r, bsArgs.sigma)>>
    /\ bsPc' = "returned"
    /\ UNCHANGED <<bsArgs, btVars, genVars, appVars, pfVars>>

PricingNext == CalculateBlackScholes

SpecPricing == PricingInit /\ [][PricingNext]_vars

\* Arguments outside the preconditions (a price or a volatility <= 0,
\* negative days) and a volatility so small that sigma * sqrt(T) rounds to 0
EdgeSpotVals == {(0 - 100) * Scale, 0, 100 * Scale, 105 * Scale}

EdgeStrikePriceVals == {0, 100 * Scale}

EdgeDaysVals == {0 - 1, 0, 30}

EdgeVolatilityVals == {0, 1, 200000}

PricingEdgeInit ==
    /\ bsArgs \in [S : EdgeSpotVals, K : EdgeStrikePriceVals, T : EdgeDaysVals,
                   r : RateVals, sigma : EdgeVolatilityVals]
    /\ bsPc = "called"
    /\ bsResult = <<>>
    /\ BacktestIdle
    /\ GenerateIdle
    /\ AppInitState
    /\ PortfolioInitState

SpecPricingEdge == PricingEdgeInit /\ [][PricingNext]_vars

----------------------------------------------------------------------------
(* generateMockPriceData: prices and returns in fixed point *)

MaxDays == 3

GenDaysVals == 1..MaxDays

StartPriceVals == {Half, Scale, 2 * Scale}

GenVolatilityVals == {20000, Scale}

\* Values of Math.random(), in [0, 1)
RandomVals == {0, 250000, 750000}

\* (Math.random() - 0.5) * volatility * 2
RandomReturn(rnd, volatility) ==
    FxMul(FxMul(FxSub(rnd, Half), volatility), 2 * Scale)

\* prices[i - 1] * (1 + randomReturn)
NewPrice(prev, randomReturn) == FxMul(prev, FxAdd(Scale, randomReturn))

\* Math.max(newPrice, 1)
FloorAtOne(newPrice) == Max(newPrice, Scale)

\* The condition of the for statement with <= in place of <
GenLoopGuardInclusive(k, days) == k <= days

\* The condition of the for statement
GenLoopGuard(k, days) == k < days

\* The state at the head of the for statement of a call
GenerateStart(args) ==
    /\ genArgs' = args
    /\ genI' = 1
    /\ genPrices' = <<args.startPrice>>
    /\ genReturns' = <<>>
    /\ genPc' = "loop"
    /\ genResult' = <<>>

GenerateInit ==
    /\ genArgs \in [days : GenDaysVals, startPrice : StartPriceVals,
                    volatility : GenVolatilityVals]
    /\ genI = 1
    /\ genPrices = <<genArgs.startPrice>>
    /\ genReturns = <<>>
    /\ genPc = "loop"
    /\ genResult = <<>>
    /\ genFirst = <<>>
    /\ BacktestIdle
    /\ PricingIdle
    /\ AppInitState
    /\ PortfolioInitState

\* One iteration of the for statement, with one value of Math.random()
GenerateIter ==
    /\ genPc = "loop"
    /\ GenLoopGuard(genI, genArgs.days)
    /\ \E rnd \in RandomVals :
         LET randomReturn == RandomReturn(rnd, genArgs.volatility)
             newPrice == NewPrice(genPrices[genI], randomReturn)
         IN  /\ genPrices' = Append(genPrices, FloorAtOne(newPrice))
             /\ genReturns' = Append(genReturns, randomReturn)
    /\ genI' = genI + 1
    /\ UNCHANGED <<genArgs, genPc, genResult, genFirst, btVars, bsVars,
                   appVars, pfVars>>

\* The for statement ends and the function returns
GenerateReturn ==
    /\ genPc = "loop"
    /\ ~GenLoopGuard(genI, genArgs.days)
    /\ genResult' = <<[prices |-> genPrices, returns |-> genReturns]>>
    /\ genPc' = "returned"
    /\ UNCHANGED <<genArgs, genI, genPrices, genReturns, genFirst, btVars,
                   bsVars, appVars, pfVars>>

\* The function is called once more with the arguments of the call before
GenerateAgain ==
    /\ genPc = "returned"
    /\ genFirst = <<>>
    /\ genFirst' = genResult
    /\ GenerateStart(genArgs)
    /\ UNCHANGED <<btVars, bsVars, appVars, pfVars>>

GenerateNext == GenerateIter \/ GenerateReturn \/ GenerateAgain

SpecGenerate == GenerateInit /\ [][GenerateNext]_vars

----------------------------------------------------------------------------
(* The App component: navigation, calculateOption and runBacktest *)

\* The sections that the content area renders
Sections == {"overview", "pricing", "greeks", "backtesting", "portfolio"}

\* The targets of the buttons of the navigation bar
NavTargets == {"overview", "pricing", "greeks", "backtesting", "portfolio"}

\* The targets of the feature cards of the overview
CardTargets == {"pricing", "greeks", "backte  sting", "portfolio"}

\* The arguments of the call of runCoveredCallBacktest in runBacktest
\* (12865, 290.5, 10), in the units of PriceVals
RunArgs == [strike |-> 10, premium |-> 2, quantity |-> 1]

\* Paths standing for the result of generateMockPriceData in runBacktest:
\* two full periods and one more day, entered at 10 and left at 8 or at 12
MockPathVals ==
    { PathOf(2 * Period + 1, [k \in 0..2 |-> 10], [k \in 0..1 |-> v]) :
        v \in {8, 12} }

\* The for statement of runCoveredCallBacktest from index idx on
RECURSIVE BacktestLoop(_, _, _, _, _, _, _, _, _)
BacktestLoop(path, k, prem, q, idx, rs, total, w, t) ==
    IF LoopGuard(path, idx)
    THEN LET exitPrice == ExitPrice(path, idx)
             tradePnL == StockPnL(EntryPrice(path, idx), exitPrice, q)
                         + OptionPnL(exitPrice, k, prem, q)
         IN  BacktestLoop(path, k, prem, q, idx + Period,
                          Append(rs, TradeRecord(idx, exitPrice, tradePnL,
                                                 total + tradePnL)),
                          total + tradePnL,
                          IF IsWin(tradePnL) THEN w + 1 ELSE w,
                          t + 1)
    ELSE [results |-> rs, totalPnL |-> total, winningTrades |-> w,
          totalTrades |-> t]

\* runCoveredCallBacktest as a function of its arguments and of the
\* initialCapital that its closure reads
runCoveredCallBacktest(path, k, prem, q, capital) ==
    LET l == BacktestLoop(path, k, prem, q, 0, <<>>, 0, 0, 0)
    IN  BacktestReport(l.results, l.totalPnL, l.winningTrades, l.totalTrades,
                       capital)

NotImplemented == [message |-> "Strategy not implemented yet"]

\* The test of runBacktest with every strategy taken for the covered call
IsCoveredCallAlways(st) == TRUE

\* The test of runBacktest on the strategy
IsCoveredCall(st) == st = "covered_call"

\* The results that runBacktest computes from a path
BacktestResultsFor(inputs, path) ==
    IF IsCoveredCall(inputs.strategy)
    THEN runCoveredCallBacktest(path, RunArgs.strike, RunArgs.premium,
                                RunArgs.quantity, inputs.initialCapital)
    ELSE NotImplemented

\* The busy flag after the try statement if it were cleared inside try
BusyAfterInsideTry(threw) == threw

\* The busy flag after the try statement
BusyAfter(threw) == FALSE

\* The stored result after the try statement: the catch clause stores nothing
StoredAfter(threw, old, new) == IF threw THEN old ELSE <<new>>

AppInit ==
    /\ AppInitState
    /\ PortfolioInitState
    /\ BacktestIdle
    /\ PricingIdle
    /\ GenerateIdle

\* calculateOption up to its await
CalculateOptionStart ==
    /\ ~isCalculating
    /\ isCalculating' = TRUE
    /\ runOptionInputs' = <<optionInputs>>
    /\ UNCHANGED <<activeSection, optionInputs, optionResults, calcFailed,
                   strategyInputs, backtestResults, isBacktesting,
                   runStrategyInputs, backtestFailed, resultsOf>>
    /\ UNCHANGED <<btVars, bsVars, genVars, pfVars>>

\* calculateOption after the timer: the rest of the try statement, which
\* ends by an exception (threw) or normally, and the statement after it
CalculateOptionEnd(threw) ==
    /\ runOptionInputs # <<>>
    /\ runOptionInputs' = <<>>
    /\ calcFailed' = threw
    /\ isCalculating' = BusyAfter(threw)
    /\ LET a == runOptionInputs[1]
           res == calculateBlackScholes(a.stockPrice, a.strikePrice,
                      a.timeToExpiry, a.riskFreeRate, a.volatility)
       IN  optionResults' = StoredAfter(threw, optionResults, res)
    /\ UNCHANGED <<activeSection, optionInputs, strategyInputs,
                   backtestResults, isBacktesting, runStrategyInputs,
                   backtestFailed, resultsOf>>
    /\ UNCHANGED <<btVars, bsVars, genVars, pfVars>>

CalculateOptionFinish == CalculateOptionEnd(TRUE) \/ CalculateOptionEnd(FALSE)

\* The strategy select is changed
SelectStrategy ==
    /\ \E st \in Strategies :
         strategyInputs' = [strategyInputs EXCEPT !.strategy = st]
    /\ UNCHANGED <<activeSection, optionInputs, optionResults, isCalculating,
                   runOptionInputs, calcFailed, backtestResults,
                   isBacktesting, runStrategyInputs, backtestFailed,
                   resultsOf>>
    /\ UNCHANGED <<btVars, bsVars, genVars, pfVars>>

\* The initial-capital field is edited
EditInitialCapital ==
    /\ \E c \in CapitalVals :
         strategyInputs' = [strategyInputs EXCEPT !.initialCapital = c]
    /\ UNCHANGED <<activeSection, optionInputs, optionResults, isCalculating,
                   runOptionInputs, calcFailed, backtestResults,
                   isBacktesting, runStrategyInputs, backtestFailed,
                   resultsOf>>
    /\ UNCHANGED <<btVars, bsVars, genVars, pfVars>>

\* runBacktest up to its await
RunBacktestStart ==
    /\ ~isBacktesting
    /\ isBacktesting' = TRUE
    /\ runStrategyInputs' = <<strategyInputs>>
    /\ UNCHANGED <<activeSection, optionInputs, optionResults, isCalculating,
                   runOptionInputs, calcFailed, strategyInputs,
                   backtestResults, backtestFailed, resultsOf>>
    /\ UNCHANGED <<btVars, bsVars, genVars, pfVars>>

\* runBacktest after the timer: the rest of the try statement, which ends
\* by an exception (threw) or normally, and the statement after it
RunBacktestEnd(threw) ==
    /\ runStrategyInputs # <<>>
    /\ runStrategyInputs' = <<>>
    /\ backtestFailed' = threw
    /\ isBacktesting' = BusyAfter(threw)
    /\ resultsOf' = IF threw THEN resultsOf ELSE runStrategyInputs
    /\ \E path \in MockPathVals :
         backtestResults' =
            StoredAfter(threw, backtestResults,
                        BacktestResultsFor(runStrategyInputs[1], path))
    /\ UNCHANGED <<activeSection, optionInputs, optionResults, isCalculating,
                   runOptionInputs, calcFailed, strategyInputs>>
    /\ UNCHANGED <<btVars, bsVars, genVars, pfVars>>

RunBacktestFinish == RunBacktestEnd(TRUE) \/ RunBacktestEnd(FALSE)

AppNext ==
    \/ CalculateOptionStart
    \/ CalculateOptionFinish
    \/ SelectStrategy
    \/ EditInitialCapital
    \/ RunBacktestStart
    \/ RunBacktestFinish

SpecApp == AppInit /\ [][AppNext]_vars

\* The timers of the two handlers fire
SpecAppFair ==
    /\ SpecApp
    /\ WF_vars(CalculateOptionFinish)
    /\ WF_vars(RunBacktestFinish)

----------------------------------------------------------------------------
(* The App component: navigation and the portfolio *)

\* A button of the navigation bar
NavClick ==
    /\ \E t \in NavTargets : activeSection' = t
    /\ UNCHANGED <<optionInputs, optionResults, isCalculating,
                   runOptionInputs, calcFailed, strategyInputs,
                   backtestResults, isBacktesting, runStrategyInputs,
                   backtestFailed, resultsOf>>
    /\ UNCHANGED <<btVars, bsVars, genVars, pfVars>>

\* A feature card of the overview
CardClick ==
    /\ activeSection = "overview"
    /\ \E t \in CardTargets : activeSection' = t
    /\ UNCHANGED <<optionInputs, optionResults, isCalculating,
                   runOptionInputs, calcFailed, strategyInputs,
                   backtestResults, isBacktesting, runStrategyInputs,
                   backtestFailed, resultsOf>>
    /\ UNCHANGED <<btVars, bsVars, genVars, pfVars>>

MaxPositions == 4

\* Texts typed into the fields of the new position; the symbol field stores
\* its text in upper case
FieldTexts ==
    [symbol |-> {"", "tcs"}, strike |-> {"", "12450"},
     quantity |-> {"", "10"}, premium |-> {"", "450"}]

\* String.prototype.toUpperCase on the texts of the symbol field
ToUpperCase(str) == IF str = "tcs" THEN "TCS" ELSE str

\* The stored text of a field
StoredText(field, str) == IF field = "symbol" THEN ToUpperCase(str) ELSE str

\* parseFloat and parseInt on the texts of the numeric fields; the empty
\* text gives NaN
ParseNumber(str) ==
    CASE str = "12450" -> 12450
      [] str = "10" -> 10
      [] str = "450" -> 450
      [] OTHER -> FxNaN

\* An amount of rupees in hundredths
Hundredths(x) == IF FxIsNaN(x) THEN FxNaN ELSE x * 100

\* parseFloat(premium) * (0.9 + Math.random() * 0.4), in hundredths
CurrentPrice(prem, rnd) ==
    FxMul(Hundredths(prem), FxAdd(900000, FxMul(rnd, 400000)))

\* Values of Math.random() in addPosition
PositionRandomVals == {0, Half}

\* The condition of addPosition without its test of the premium
FormCompleteWithoutPremium(form) ==
    form.symbol # "" /\ form.strike # "" /\ form.quantity # ""

\* The condition of addPosition: the four texts are truthy
FormComplete(form) ==
    form.symbol # "" /\ form.strike # "" /\ form.quantity # ""
    /\ form.premium # ""

\* The position that addPosition builds at the time now
PositionOf(form, now, rnd) ==
    [id |-> now, symbol |-> form.symbol, type |-> form.type,
     strike |-> ParseNumber(form.strike), expiry |-> form.expiry,
     quantity |-> ParseNumber(form.quantity),
     premium |-> Hundredths(ParseNumber(form.premium)),
     current |-> CurrentPrice(ParseNumber(form.premium), rnd)]

\* portfolioPositions.filter((p) => p.id !== id)
WithoutId(ps, id) == SelectSeq(ps, LAMBDA pos : pos.id # id)

RECURSIVE TotalValue(_, _)
TotalValue(ps, k) ==
    IF k = 0 THEN 0
    ELSE TotalValue(ps, k - 1) + ps[k].current * ps[k].quantity * Multiplier

RECURSIVE TotalPositionPnL(_, _)
TotalPositionPnL(ps, k) ==
    IF k = 0 THEN 0
    ELSE TotalPositionPnL(ps, k - 1)
         + (ps[k].current - ps[k].premium) * ps[k].quantity * Multiplier

\* The metrics of calculatePortfolioMetrics that are sums over the
\* positions, in hundredths, and the count
calculatePortfolioMetrics(ps) ==
    [totalValue |-> TotalValue(ps, Len(ps)),
     totalPnL |-> TotalPositionPnL(ps, Len(ps)),
     positionCount |-> Len(ps)]

\* A field of the new position is edited
EditNewPosition ==
    /\ activeSection = "portfolio"
    /\ ~effectPending
    /\ \E field \in DOMAIN FieldTexts :
         \E str \in FieldTexts[field] :
            newPosition' =
               [newPosition EXCEPT ![field] = StoredText(field, str)]
    /\ UNCHANGED <<portfolioPositions, portfolioMetrics, effectPending, clock>>
    /\ UNCHANGED <<btVars, bsVars, genVars, appVars>>

\* addPosition
AddPosition ==
    /\ activeSection = "portfolio"
    /\ ~effectPending
    /\ IF FormComplete(newPosition)
       THEN /\ Len(portfolioPositions) < MaxPositions
            /\ \E now \in ClockVals, rnd \in PositionRandomVals :
                 /\ now >= clock
                 /\ clock' = now
                 /\ portfolioPositions' =
                       Append(portfolioPositions,
                              PositionOf(newPosition, now, rnd))
            /\ newPosition' = EmptyPosition
            /\ effectPending' = TRUE
            /\ UNCHANGED portfolioMetrics
       ELSE UNCHANGED pfVars
    /\ UNCHANGED <<btVars, bsVars, genVars, appVars>>

\* removePosition(id), from the button of a row of the table
RemovePosition ==
    /\ activeSection = "portfolio"
    /\ ~effectPending
    /\ \E k \in 1..Len(portfolioPositions) :
         portfolioPositions' =
            WithoutId(portfolioPositions, portfolioPositions[k].id)
    /\ effectPending' = TRUE
    /\ UNCHANGED <<portfolioMetrics, newPosition, clock>>
    /\ UNCHANGED <<btVars, bsVars, genVars, appVars>>

\* The effect of portfolioPositions, after the first render and after every
\* change of the positions
PortfolioEffect ==
    /\ effectPending
    /\ portfolioMetrics' =
          IF Len(portfolioPositions) > 0
          THEN <<calculatePortfolioMetrics(portfolioPositions)>>
          ELSE portfolioMetrics
    /\ effectPending' = FALSE
    /\ UNCHANGED <<portfolioPositions, newPosition, clock>>
    /\ UNCHANGED <<btVars, bsVars, genVars, appVars>>

ShellNext ==
    \/ NavClick
    \/ CardClick
    \/ EditNewPosition
    \/ AddPosition
    \/ RemovePosition
    \/ PortfolioEffect

SpecShell == AppInit /\ [][ShellNext]_vars

\* The functions and the component, each run on its own
Init ==
    BacktestInit \/ PricingInit \/ PricingEdgeInit \/ GenerateInit \/ AppInit

Next ==
    BacktestNext \/ PricingNext \/ GenerateNext \/ AppNext \/ ShellNext

Spec == Init /\ [][Next]_vars

----------------------------------------------------------------------------
(* Properties of runCoveredCallBacktest *)

Returned == btPc = "returned"

\* The trade records: those of the report once it is returned, those pushed
\* so far while the loop runs
Trades == IF Returned THEN report[1].trades ELSE results

RECURSIVE SumPnl(_, _)
SumPnl(ts, k) == IF k = 0 THEN 0 ELSE SumPnl(ts, k - 1) + ts[k].pnl

\* Entry and exit price of full block k (k = 1 is the first block)
BlockEntry(k) == At(prices, Period * (k - 1))

BlockExit(k) == At(prices, Period * (k - 1) + ExitOffset)

\* C1: the cumulativePnL of every trade record is the sum of the pnl of the
\* records up to it: the first record's cumulativePnL is its pnl, and every
\* later one is the previous cumulativePnL plus its own pnl.
C1_CumulativeIsRunningSum ==
    \A k \in 1..Len(Trades) :
        /\ Trades[k].cumulativePnL = SumPnl(Trades, k)
        /\ k = 1 => Trades[k].cumulativePnL = Trades[k].pnl
        /\ k > 1 => Trades[k].cumulativePnL
                      = Trades[k - 1].cumulativePnL + Trades[k].pnl

C1_Witness ==
    /\ Returned
    /\ Len(Trades) >= 2
    /\ Trades[1].pnl # 0
    /\ Trades[2].pnl # 0
    /\ Trades[2].cumulativePnL # Trades[2].pnl

\* C2: a returned report holds one record per full block of 30 elements of
\* the path, floor(N / 30) records for a path of N elements, and record k
\* is made from the first and the last price of block k.
C2_OneRecordPerFullBlock ==
    Returned =>
        /\ Len(Trades) = Len(prices) \div Period
        /\ \A k \in 1..Len(Trades) :
             /\ Trades[k].stockPrice = BlockExit(k)
             /\ Trades[k].pnl = StockPnL(BlockEntry(k), BlockExit(k), quantity)
                                + OptionPnL(BlockExit(k), strike, premium, quantity)

\* C3: the pnl of every record is stockPnL + optionPnL, with
\* stockPnL = (exit - entry) * quantity * 100 and
\* optionPnL = premium * quantity * 100 - max(exit - strike, 0) * quantity * 100.
C3_PeriodPnLFormula ==
    \A k \in 1..Len(Trades) :
        Trades[k].pnl
          = (BlockExit(k) - BlockEntry(k)) * quantity * 100
            + (premium * quantity * 100
               - Max(BlockExit(k) - strike, 0) * quantity * 100)

C3_Witness ==
    /\ Returned
    /\ \E k \in 1..Len(Trades) : BlockExit(k) = strike
    /\ \E k \in 1..Len(Trades) : BlockExit(k) > strike /\ BlockEntry(k) < strike

\* C4: the report of a path shorter than 30 elements has no trades,
\* totalTrades = 0, and winRate, avgPnL and maxDrawdown are not NaN or
\* infinite.
C4_ShortPathNoDataValues ==
    (Returned /\ Len(prices) < Period) =>
        /\ Len(report[1].trades) = 0
        /\ report[1].totalTrades = 0
        /\ IsFinite(report[1].winRate)
        /\ IsFinite(report[1].avgPnL)
        /\ IsFinite(report[1].maxDrawdown)

\* C5: the report of a flat path of 30 elements below the strike contains a
\* period whose pnl is premium * quantity * 100.
C5_FlatPathKeepsPremium ==
    (/\ Returned
     /\ Len(prices) = Period
     /\ \A j \in 1..Len(prices) : prices[j] = prices[1]
     /\ prices[1] < strike)
    => \E k \in 1..Len(Trades) : Trades[k].pnl = premium * quantity * 100

\* The least cumulativePnL of a non-empty sequence of records
LeastCumulative(ts) ==
    CHOOSE m \in {ts[k].cumulativePnL : k \in 1..Len(ts)} :
        \A k \in 1..Len(ts) : m <= ts[k].cumulativePnL

\* C6: in a report with at least one period maxDrawdown is the least
\* cumulativePnL when that is negative and zero otherwise, so it is never
\* positive.
C6_MaxDrawdownNeverPositive ==
    (Returned /\ report[1].totalTrades >= 1) =>
        /\ report[1].maxDrawdown
             = FromInt(IF LeastCumulative(Trades) < 0
                       THEN LeastCumulative(Trades) ELSE 0)
        /\ FracLeq(report[1].maxDrawdown, FromInt(0))

\* C7: in a report with at least one period totalTrades is the number of
\* records, winningTrades the number of records with pnl > 0, totalPnL the
\* last record's cumulativePnL and avgPnL is totalPnL / totalTrades.
C7_ReportTotals ==
    (Returned /\ report[1].totalTrades >= 1) =>
        /\ report[1].totalTrades = Len(Trades)
        /\ report[1].winningTrades
             = Cardinality({k \in 1..Len(Trades) : Trades[k].pnl > 0})
        /\ report[1].totalPnL = Trades[Len(Trades)].cumulativePnL
        /\ IsFinite(report[1].avgPnL)
        /\ report[1].avgPnL.num * report[1].totalTrades
             = report[1].totalPnL * report[1].avgPnL.den

C7_Witness ==
    /\ Returned
    /\ Len(Trades) >= 2
    /\ \E k \in 1..Len(Trades) : Trades[k].pnl = 0
    /\ \E k \in 1..Len(Trades) : Trades[k].pnl > 0
    /\ report[1].avgPnL.num # 0

\* C8: in a report with at least one period winRate is
\* 100 * winningTrades / totalTrades, between 0 and 100, and
\* winningTrades <= totalTrades.
C8_WinRateIsPercentage ==
    (Returned /\ report[1].totalTrades >= 1) =>
        /\ IsFinite(report[1].winRate)
        /\ report[1].winRate.num * report[1].totalTrades
             = 100 * report[1].winningTrades * report[1].winRate.den
        /\ FracLeq(FromInt(0), report[1].winRate)
        /\ FracLeq(report[1].winRate, FromInt(100))
        /\ report[1].winningTrades <= report[1].totalTrades

C8_Witness ==
    /\ Returned
    /\ report[1].totalTrades = 2
    /\ report[1].winningTrades = 1
    /\ report[1].winRate = FromInt(50)

----------------------------------------------------------------------------
(* Properties of calculateBlackScholes *)

PricingReturned == bsPc = "returned"

\* C9: with 0 days to expiry the result is the intrinsic value,
\* callPrice = max(S - K, 0) and putPrice = max(K - S, 0), and the Greeks
\* are delta = 1 if S > K else 0 and gamma, theta, vega, rho all zero; at
\* S = K both prices and delta are 0.
C9_ExpiryIsIntrinsicValue ==
    (PricingReturned /\ bsArgs.T = 0) =>
        /\ bsResult[1].callPrice = Max(bsArgs.S - bsArgs.K, 0)
        /\ bsResult[1].putPrice = Max(bsArgs.K - bsArgs.S, 0)
        /\ bsResult[1].greeks
             = [delta |-> IF bsArgs.S > bsArgs.K THEN Scale ELSE 0,
                gamma |-> 0, theta |-> 0, vega |-> 0, rho |-> 0]
        /\ bsArgs.S = bsArgs.K =>
             /\ bsResult[1].callPrice = 0
             /\ bsResult[1].putPrice = 0
             /\ bsResult[1].greeks.delta = 0

C9_Witness ==
    /\ PricingReturned
    /\ bsArgs.T = 0
    /\ bsArgs.S = bsArgs.K
    /\ bsResult[1].greeks.delta = 0

PriceTol == Scale \div 10000

\* The arguments meet the preconditions of the pricing operation
ValidInputs(a) == a.S > 0 /\ a.K > 0 /\ a.sigma > 0 /\ a.T >= 0

GreekFields ==
    {"delta_call", "delta_put", "gamma", "theta_call", "theta_put", "vega",
     "rho_call", "rho_put"}

\* C13: the Greeks block of every result, of the expiry branch as of the
\* general branch, has the eight fields delta_call, delta_put, gamma,
\* theta_call, theta_put, vega, rho_call, rho_put.
C13_SameGreeksFields ==
    PricingReturned => DOMAIN bsResult[1].greeks = GreekFields

\* C14: a call whose inputs violate a precondition (S <= 0, K <= 0,
\* volatility <= 0 or negative days) returns no result.
C14_InvalidInputsYieldNoResult ==
    (PricingReturned /\ ~ValidInputs(bsArgs)) => Len(bsResult) = 0

\* Every number of a result is finite
ResultIsFinite(res) ==
    /\ FxIsFinite(res.callPrice)
    /\ FxIsFinite(res.putPrice)
    /\ \A f \in DOMAIN res.greeks : FxIsFinite(res.greeks[f])

\* C15: when sigma * sqrt(T) is zero while T > 0 the result is the one of
\* the T = 0 branch, and no number of any result is NaN or infinite.
C15_ZeroVolTimeTakesExpiryBranch ==
    PricingReturned =>
        /\ ResultIsFinite(bsResult[1])
        /\ (/\ bsArgs.T > 0
            /\ FxMul(bsArgs.sigma, FxSqrt(TimeToExpiry(bsArgs.T))) = 0)
           => bsResult[1] = ExpiryResult(bsArgs.S, bsArgs.K)

GenerateReturned == genPc = "returned"

\* C16: generateMockPriceData with a positive integer days returns prices
\* of length days whose first element is startPrice, and returns of length
\* days - 1.
C16_PathLengths ==
    GenerateReturned =>
        /\ Len(genResult[1].prices) = genArgs.days
        /\ genResult[1].prices[1] = genArgs.startPrice
        /\ Len(genResult[1].returns) = genArgs.days - 1

C16_Witness ==
    /\ GenerateReturned
    /\ genArgs.days >= 3
    /\ Len(genResult[1].prices) = genArgs.days
    /\ genResult[1].prices[2] # genArgs.startPrice
    /\ genResult[1].prices[3] # genResult[1].prices[2]

\* C17: every element of the returned prices is at least 1, for every
\* positive startPrice, every volatility and every sequence of draws.
C17_EveryPriceAtLeastOne ==
    GenerateReturned =>
        \A k \in 1..Len(genResult[1].prices) : genResult[1].prices[k] >= Scale

\* C18: two calls of generateMockPriceData with the same arguments return
\* identical prices and returns.
C18_SameArgumentsSamePath ==
    (GenerateReturned /\ genFirst # <<>>) => genResult = genFirst

\* C19: the report of runCoveredCallBacktest depends on its arguments
\* (prices, strike, premium, quantity) only: with any other value of the
\* application's initialCapital the same call returns an equal report.
C19_ReportIndependentOfAppState ==
    Returned =>
        \A capital \in CapitalVals :
            BacktestReport(results, totalPnL, winningTrades, totalTrades,
                           capital) = report[1]

\* The prices of the call with the underlying price S2 and the other
\* arguments of the call in bsArgs
PricesAt(S2) ==
    calculateBlackScholes(S2, bsArgs.K, bsArgs.T, bsArgs.r, bsArgs.sigma)

----------------------------------------------------------------------------
(* Properties of the trade records *)

\* The day of 2023 of the path index j: index 0 is the first of January
DayOfIndex(j) == j + 1

\* The loop index of the k-th record
IndexOfTrade(k) == (k - 1) * Period

\* C22: the date of each trade record is the date of the path index whose
\* price is the record's stockPrice (index i + 29), and the dates of
\* successive records are 30 days apart.
C22_DateIsExitDay ==
    Returned =>
        /\ \A k \in 1..Len(Trades) :
             Trades[k].date = DayOfIndex(IndexOfTrade(k) + ExitOffset)
        /\ \A k \in 1..(Len(Trades) - 1) :
             Trades[k + 1].date - Trades[k].date = Period

\* C23: in every period the loop evaluates, index i + 29 is inside the path
\* and exitPrice is prices[i + 29], not the fallback prices[length - 1].
C23_FallbackIsDeadCode ==
    /\ (btPc = "loop" /\ LoopGuard(prices, i)) =>
          /\ i + ExitOffset < Len(prices)
          /\ ExitPrice(prices, i) = At(prices, i + ExitOffset)
    /\ Returned =>
          \A k \in 1..Len(Trades) :
             /\ IndexOfTrade(k) + ExitOffset < Len(prices)
             /\ Trades[k].stockPrice = At(prices, IndexOfTrade(k) + ExitOffset)

C23_Witness ==
    /\ Returned
    /\ Len(Trades) >= 1
    /\ Trades[1].stockPrice = At(prices, ExitOffset)
    /\ Trades[1].stockPrice # At(prices, Len(prices) - 1)

\* The largest P&L of the period whose entry price is entryPrice
PnLCap(entryPrice) == (strike - entryPrice + premium) * quantity * Multiplier

----------------------------------------------------------------------------
(* Properties of runBacktest and calculateOption *)

ResultsStored == backtestResults # <<>>

C25_BusyFlagsAreReset ==
    /\ isCalculating ~> ~isCalculating
    /\ isBacktesting ~> ~isBacktesting
    /\ [][(runOptionInputs # <<>> /\ runOptionInputs' = <<>> /\ calcFailed')
            => optionResults' = optionResults]_vars
    /\ [][(runStrategyInputs # <<>> /\ runStrategyInputs' = <<>>
           /\ backtestFailed')
            => backtestResults' = backtestResults]_vars

C25_Witness ==
    /\ ~isCalculating
    /\ calcFailed
    /\ optionResults # <<>>
    /\ ~isBacktesting
    /\ backtestFailed
    /\ ResultsStored

\* C26: whenever results are displayed, the strategy of the heading
\* (strategyInputs.strategy) is the strategy of the run that stored them,
\* and the displayed finalReturn is computed with the initial capital of
\* the form.
C26_HeadingMatchesResults ==
    ResultsStored =>
        /\ strategyInputs.strategy = resultsOf[1].strategy
        /\ "finalReturn" \in DOMAIN backtestResults[1] =>
              backtestResults[1].finalReturn =
                 FinalReturn(backtestResults[1].totalPnL,
                             strategyInputs.initialCapital)

----------------------------------------------------------------------------
(* Properties of the navigation and of the portfolio *)

\* C27: after any sequence of clicks on the navigation bar and on the
\* feature cards, activeSection is one of the five sections that the
\* content area renders.
C27_ActiveSectionIsASection == activeSection \in Sections

\* C28: once the effect has run, portfolioMetrics.positionCount is the
\* number of positions, also when the last position has been removed.
C28_MetricsDescribePositions ==
    ~effectPending =>
        /\ portfolioMetrics # <<>>
        /\ portfolioMetrics[1].positionCount = Len(portfolioPositions)

\* C29: addPosition changes nothing when symbol, strike, quantity or
\* premium of the form is empty; otherwise it appends exactly one position,
\* leaves the positions before it as they are and resets the form.
C29_AddPositionAppendsOrNothing ==
    [][AddPosition =>
          IF /\ newPosition.symbol # ""
             /\ newPosition.strike # ""
             /\ newPosition.quantity # ""
             /\ newPosition.premium # ""
          THEN /\ Len(portfolioPositions') = Len(portfolioPositions) + 1
               /\ SubSeq(portfolioPositions', 1, Len(portfolioPositions))
                     = portfolioPositions
               /\ portfolioPositions'[Len(portfolioPositions')].symbol
                     = newPosition.symbol
               /\ newPosition' = EmptyPosition
          ELSE UNCHANGED <<portfolioPositions, newPosition>>]_vars

C29_Witness ==
    /\ Len(portfolioPositions) = Len(InitialPositions) + 1
    /\ SubSeq(portfolioPositions, 1, Len(InitialPositions)) = InitialPositions
    /\ portfolioPositions[Len(portfolioPositions)].symbol = "TCS"
    /\ portfolioPositions[Len(portfolioPositions)].premium = 45000
    /\ newPosition = EmptyPosition

\* C30: the ids of the positions are pairwise distinct.
C30_IdsAreDistinct ==
    \A a, b \in 1..Len(portfolioPositions) :
        a # b => portfolioPositions[a].id # portfolioPositions[b].id

====
